---------------------------- MODULE Spec2Model ----------------------------
(***************************************************************************)
(* Model of the myco-mentor-express backend:                               *)
(*   - routes/environmentalRoutes.js : GET /environmental-data and its     *)
(*     three fetchers (weather, light intensity, water pH);                *)
(*   - the marketplace router (GET/POST/PUT/DELETE on listings).           *)
(*                                                                         *)
(* JavaScript values are records: Num(v) is the number v, NaNv is NaN,     *)
(* Undef is undefined.  Instants are integer milliseconds.                 *)
(***************************************************************************)
EXTENDS Integers, Sequences, FiniteSets, TLC

VARIABLES
    \* ---- light estimator, applied as a function -------------------------
    lin,        \* the provider outcome and clock reading handed to it
    lout,       \* the { intensity } it returned, or None
    \* ---- weather fallback, applied as a function ------------------------
    rnd,        \* the two Math.random() draws
    wout,       \* the { temperature, humidity } returned, or None
    \* ---- GET /environmental-data ----------------------------------------
    pc,         \* position of the route handler
    query,      \* req.query: [latitude, longitude]
    apiKey,     \* process.env.OPENWEATHER_API_KEY is set
    weather,    \* promise of fetchWeatherData
    light,      \* promise of fetchLightIntensity
    ph,         \* result of fetchWaterPH
    calls,      \* upstream calls started during the request, in order
    sent,       \* responses written to res, in order
    \* ---- marketplace ----------------------------------------------------
    store,      \* the listings collection: id -> document or Absent
    used,       \* ids the store has ever assigned
    clock,      \* Date.now()
    mreq        \* the request of each connection, with its handler's position

lightVars == <<lin, lout>>
weatherVars == <<rnd, wout>>
envVars == <<pc, query, apiKey, weather, light, ph, calls, sent>>
marketVars == <<store, used, clock, mreq>>
notEnvVars == <<lightVars, weatherVars, marketVars>>
vars == <<lin, lout, rnd, wout, pc, query, apiKey, weather, light, ph, calls,
          sent, store, used, clock, mreq>>

-----------------------------------------------------------------------------
(* Bounds of the model *)

\* instants range over 0..MaxT
MaxT == 8
\* Math.random() yields k / RandRes for k in 0..RandRes-1
RandRes == 100
\* Date.now() readings range over 0..MaxClock
MaxClock == 1

-----------------------------------------------------------------------------
(* JavaScript values *)

None == [t |-> "none"]
Num(v) == [t |-> "num", v |-> v]
NaNv == [t |-> "nan"]
Undef == [t |-> "undef"]

IsNum(x) == x.t = "num"

\* Math.round of the rational num/den (den > 0): floor(num/den + 1/2)
MathRound(num, den) == (2 * num + den) \div (2 * den)

Max2(a, b) == IF a >= b THEN a ELSE b
Min2(a, b) == IF a <= b THEN a ELSE b

\* a < b on JavaScript numbers: false as soon as one side is NaN
jsLt(a, b) == IsNum(a) /\ IsNum(b) /\ a.v < b.v

\* a - b on JavaScript numbers
jsSub(a, b) == IF IsNum(a) /\ IsNum(b) THEN Num(a.v - b.v) ELSE NaNv

-----------------------------------------------------------------------------
(* Light estimator: fetchLightIntensity *)

\* (now - sunrise) / dayLength, kept as the fraction n/d; 0/0 and NaN/x are NaN
dayProgress(elapsed, dayLength) ==
    IF ~IsNum(elapsed) \/ ~IsNum(dayLength) THEN NaNv
    ELSE IF dayLength.v = 0
         THEN (IF elapsed.v = 0 THEN NaNv
               ELSE [t |-> "inf", neg |-> (elapsed.v < 0)])
         ELSE [t |-> "frac", n |-> elapsed.v, d |-> dayLength.v]

\* Math.round(100 * (1 - 4 * Math.pow(dayProgress - 0.5, 2)))
\*   with p = n/d this is round(400 n (d - n) / d^2)
parabola(p) ==
    IF p.t = "frac"
    THEN Num(MathRound(400 * p.n * (p.d - p.n), p.d * p.d))
    ELSE IF p.t = "inf" THEN [t |-> "inf", neg |-> TRUE]
    ELSE NaNv

\* the clamp without its lower bound: Math.min(100, intensity)
clamp_noFloor(x) ==
    IF IsNum(x) THEN Num(Min2(100, x.v))
    ELSE IF x.t = "inf" THEN x
    ELSE NaNv

\* Math.max(10, Math.min(100, intensity))
clamp(x) ==
    IF IsNum(x) THEN Num(Max2(10, Min2(100, x.v)))
    ELSE IF x.t = "inf" THEN Num(10)
    ELSE NaNv

\* the status === 'OK' branch
daylightIntensity(now, sunrise, sunset) ==
    LET dayLength == jsSub(sunset, sunrise) IN
    IF jsLt(now, sunrise) \/ jsLt(sunset, now)
    THEN Num(10)
    ELSE clamp(parabola(dayProgress(jsSub(now, sunrise), dayLength)))

\* the catch branch: hour-of-day table on the server's clock
hourFallback(hour) ==
    IF hour < 6 \/ hour > 18 THEN Num(10)
    ELSE IF hour >= 10 /\ hour <= 14 THEN Num(90)
    ELSE Num(50)

\* What the provider call produced:
\*   kind "ok"      a body with status 'OK' and results.sunrise/sunset
\*   kind "notok"   a body whose status is not 'OK'
\*   kind "nobody"  a body with status 'OK' but no results object (TypeError)
\*   kind "baddates" a body with status 'OK' whose results.sunrise and
\*                  results.sunset do not parse: new Date(..) is Invalid Date
\*   kind "error"   axios rejected: network error, timeout, non-2xx status
LightKinds == {"ok", "notok", "nobody", "baddates", "error"}

lightIntensity(r) ==
    CASE r.kind = "ok" -> daylightIntensity(r.now, r.sunrise, r.sunset)
      [] r.kind = "baddates" -> daylightIntensity(r.now, NaNv, NaNv)
      [] r.kind = "notok" -> Num(50)
      [] OTHER -> hourFallback(r.hour)

Instants == {Num(i) : i \in 0..MaxT}
Hours == 0..23


\* every provider outcome with well-formed instants
LightOutcomes ==
    {[kind |-> "ok", now |-> n, sunrise |-> sr, sunset |-> ss, hour |-> 0] :
        n \in Instants, sr \in Instants, ss \in Instants}
    \cup {[kind |-> k, now |-> Num(0), sunrise |-> Num(0), sunset |-> Num(0),
           hour |-> h] : k \in {"nobody", "error"}, h \in Hours}
    \cup {[kind |-> "notok", now |-> Num(0), sunrise |-> Num(0),
           sunset |-> Num(0), hour |-> 0]}

-----------------------------------------------------------------------------
(* Weather fetcher fallback: fetchWeatherData without key or after a failure *)

\* the fallback with the ranges one too wide:
\* Math.round(20 + Math.random() * 11), Math.round(40 + Math.random() * 41)
weatherFallback_wide(r) ==
    [temperature |-> Num(MathRound(20 * RandRes + 11 * r.t, RandRes)),
     humidity |-> Num(MathRound(40 * RandRes + 41 * r.h, RandRes))]

\* Math.round(20 + Math.random() * 10), Math.round(40 + Math.random() * 40)
\*   with Math.random() = k / RandRes
weatherFallback(r) ==
    [temperature |-> Num(MathRound(20 * RandRes + 10 * r.t, RandRes)),
     humidity |-> Num(MathRound(40 * RandRes + 40 * r.h, RandRes))]

RandomDraws == [t : 0..(RandRes - 1), h : 0..(RandRes - 1)]

-----------------------------------------------------------------------------
(* Rest values of the parts a specification does not exercise *)

LightIdle == lin = None /\ lout = None
WeatherIdle == rnd = None /\ wout = None
EnvIdle ==
    /\ pc = "off" /\ query = None /\ apiKey = FALSE
    /\ weather = None /\ light = None /\ ph = None
    /\ calls = <<>> /\ sent = <<>>
MarketIdle ==
    /\ store = <<>> /\ used = {} /\ clock = 0
    /\ mreq = <<>>

-----------------------------------------------------------------------------
(* pH estimator: fetchWaterPH *)

\* a query-string value: the sequence of its characters
Str(chars) == [t |-> "str", s |-> chars]

Digits == <<"0", "1", "2", "3", "4", "5", "6", "7", "8", "9">>
IsDigit(c) == \E i \in 1..10 : Digits[i] = c
DigitVal(c) == (CHOOSE i \in 1..10 : Digits[i] = c) - 1

\* the longest prefix of s made of digits
RECURSIVE leadingDigits(_)
leadingDigits(s) ==
    IF s = <<>> \/ ~IsDigit(Head(s)) THEN <<>>
    ELSE <<Head(s)>> \o leadingDigits(Tail(s))

\* the decimal value of a sequence of digits
RECURSIVE decimalValue(_)
decimalValue(ds) ==
    IF ds = <<>> THEN 0
    ELSE 10 * decimalValue(SubSeq(ds, 1, Len(ds) - 1)) + DigitVal(ds[Len(ds)])

\* parseFloat on strings of digits, '-' and letters: an optional sign and
\* the longest run of digits after it; NaN when there is no digit there
parseFloat(x) ==
    IF x.t # "str" THEN NaNv
    ELSE LET neg == x.s # <<>> /\ Head(x.s) = "-"
             ds == leadingDigits(IF neg THEN Tail(x.s) ELSE x.s)
         IN IF ds = <<>> THEN NaNv
            ELSE Num((IF neg THEN -1 ELSE 1) * decimalValue(ds))

\* 10000 * Math.sin(x) and 10000 * Math.cos(x), rounded, x in radians
sinE4(x) ==
    LET a == IF x < 0 THEN -x ELSE x
        v == CASE a = 0 -> 0 [] a = 1 -> 8415 [] a = 10 -> -5440
    IN IF x < 0 THEN -v ELSE v
cosE4(x) ==
    LET a == IF x < 0 THEN -x ELSE x
    IN CASE a = 0 -> 10000 [] a = 1 -> 5403 [] a = 10 -> -8391

\* (7.5 + (latSeed + lngSeed) / 2).toFixed(1): the string with one decimal,
\* kept as its value in tenths; NaN.toFixed(1) is the string "NaN"
toFixed1(latSeed, lngSeed) ==
    IF IsNum(latSeed) /\ IsNum(lngSeed)
    THEN [t |-> "fixed1", tenths |-> (150000 + latSeed.v + lngSeed.v + 1000) \div 2000]
    ELSE Str(<<"N", "a", "N">>)

jsSin(x) == IF IsNum(x) THEN Num(sinE4(x.v)) ELSE NaNv
jsCos(x) == IF IsNum(x) THEN Num(cosE4(x.v)) ELSE NaNv

\* nothing in the try block throws, so the catch block ({ pH: '7.0' }) is
\* never entered
fetchWaterPH(latitude, longitude) ==
    [pH |-> toFixed1(jsSin(parseFloat(latitude)), jsCos(parseFloat(longitude)))]

-----------------------------------------------------------------------------
(* GET /environmental-data *)

\* values of a query parameter: absent, or a string
QueryVals ==
    {Undef, Str(<<>>), Str(<<"0">>), Str(<<"1">>), Str(<<"-", "1">>),
     Str(<<"1", "0">>), Str(<<"a">>), Str(<<"1", "a">>), Str(<<"-">>)}

\* !x for a query parameter
falsy(x) == x = Undef \/ x = Str(<<>>)

\* the check written with && in place of ||
missingParam_bothAbsent(q) == falsy(q.latitude) /\ falsy(q.longitude)

\* !latitude || !longitude
missingParam(q) == falsy(q.latitude) \/ falsy(q.longitude)

\* What the weather provider call produced:
\*   kind "ok"        a body with main.temp (in tenths of a degree) and
\*                    main.humidity
\*   kind "nomain"    a body without main (TypeError on data.main.temp)
\*   kind "emptymain" a body whose main has neither temp nor humidity
\*   kind "error"     axios rejected: network error, timeout, non-2xx status
WeatherOutcomes ==
    {[kind |-> "ok", temp |-> t, humidity |-> h] :
        t \in {-5, 224, 225}, h \in {55}}
    \cup {[kind |-> k, temp |-> 0, humidity |-> 0] :
            k \in {"nomain", "emptymain", "error"}}

\* the random draws taken in a request: the two ends of Math.random()'s range
EnvDraws == [t : {0, RandRes - 1}, h : {0, RandRes - 1}]

\* what fetchWeatherData resolves to after the provider call
weatherResult(o, r) ==
    CASE o.kind = "ok" ->
            [temperature |-> Num(MathRound(o.temp, 10)),
             humidity |-> Num(o.humidity)]
      [] o.kind = "emptymain" -> [temperature |-> NaNv, humidity |-> Undef]
      [] OTHER -> weatherFallback(r)

EnvLightOutcomes ==
    LightOutcomes
    \cup {[kind |-> "baddates", now |-> n, sunrise |-> NaNv, sunset |-> NaNv,
           hour |-> 0] : n \in Instants}

Pending == [st |-> "pending"]
Resolved(v, why) == [st |-> "resolved", val |-> v, cause |-> why]
settled(p) == p # None /\ p.st # "pending"

\* JSON.stringify of the response object: undefined members are dropped,
\* NaN becomes null
Null == [t |-> "null"]
toJSON(obj) ==
    [k \in {f \in DOMAIN obj : obj[f] # Undef} |->
        IF obj[k] = NaNv THEN Null ELSE obj[k]]

\* a join that settles with its first settled member (Promise.race)
joinReady_first ==
    \/ settled(weather)
    \/ settled(light)

\* Promise.all settles when every member has resolved, or as soon as one
\* has rejected
joinReady ==
    \/ settled(weather) /\ settled(light) /\ ph # None
    \/ (weather # None /\ weather.st = "rejected")
    \/ (light # None /\ light.st = "rejected")

InitEnv ==
    /\ pc = "idle" /\ query = None /\ apiKey \in BOOLEAN
    /\ weather = None /\ light = None /\ ph = None
    /\ calls = <<>> /\ sent = <<>>
    /\ LightIdle /\ WeatherIdle /\ MarketIdle

\* a request arrives
Arrive ==
    /\ pc = "idle"
    /\ \E la \in QueryVals, lo \in QueryVals :
          query' = [latitude |-> la, longitude |-> lo]
    /\ pc' = "validate"
    /\ UNCHANGED <<apiKey, weather, light, ph, calls, sent, notEnvVars>>

\* the parameter check without its return: the 400 is sent and the handler
\* goes on
Validate_noReturn ==
    /\ pc = "validate"
    /\ IF missingParam(query)
       THEN sent' = Append(sent, [status |-> 400, body |-> [error |-> "required"]])
       ELSE sent' = sent
    /\ pc' = "callWeather"
    /\ UNCHANGED <<query, apiKey, weather, light, ph, calls, notEnvVars>>

\* the parameter check: 400 and return, or go on
Validate ==
    /\ pc = "validate"
    /\ IF missingParam(query)
       THEN /\ sent' = Append(sent, [status |-> 400, body |-> [error |-> "required"]])
            /\ pc' = "done"
       ELSE /\ pc' = "callWeather"
            /\ sent' = sent
    /\ UNCHANGED <<query, apiKey, weather, light, ph, calls, notEnvVars>>

\* fetchWeatherData(latitude, longitude) runs to its first await
CallWeather ==
    /\ pc = "callWeather"
    /\ IF ~apiKey
       THEN /\ \E r \in EnvDraws :
                 weather' = Resolved(weatherFallback(r), "nokey")
            /\ calls' = Append(calls, "fetchWeatherData")
       ELSE /\ weather' = Pending
            /\ calls' = calls \o <<"fetchWeatherData", "axios:weather">>
    /\ pc' = "callLight"
    /\ UNCHANGED <<query, apiKey, light, ph, sent, notEnvVars>>

\* fetchLightIntensity(latitude, longitude) runs to its first await
CallLight ==
    /\ pc = "callLight"
    /\ light' = Pending
    /\ calls' = calls \o <<"fetchLightIntensity", "axios:light">>
    /\ pc' = "callPH"
    /\ UNCHANGED <<query, apiKey, weather, ph, sent, notEnvVars>>

\* fetchWaterPH(latitude, longitude) runs and returns; the handler then
\* awaits Promise.all
CallPH ==
    /\ pc = "callPH"
    /\ ph' = fetchWaterPH(query.latitude, query.longitude)
    /\ calls' = Append(calls, "fetchWaterPH")
    /\ pc' = "await"
    /\ UNCHANGED <<query, apiKey, weather, light, sent, notEnvVars>>

\* the weather provider call ends and fetchWeatherData resumes
WeatherSettles ==
    /\ pc = "await"
    /\ weather # None /\ weather.st = "pending"
    /\ \E o \in WeatherOutcomes, r \in EnvDraws :
          weather' = Resolved(weatherResult(o, r), o.kind)
    /\ UNCHANGED <<pc, query, apiKey, light, ph, calls, sent, notEnvVars>>

\* the sunrise/sunset provider call ends and fetchLightIntensity resumes
LightSettles ==
    /\ pc = "await"
    /\ light # None /\ light.st = "pending"
    /\ \E o \in EnvLightOutcomes :
          light' = Resolved([intensity |-> lightIntensity(o)], o.kind)
    /\ UNCHANGED <<pc, query, apiKey, weather, ph, calls, sent, notEnvVars>>

\* Promise.all settles: compose and send the response, or the catch's 500
Join ==
    /\ pc = "await"
    /\ joinReady
    /\ IF settled(weather) /\ weather.st = "resolved"
          /\ settled(light) /\ light.st = "resolved"
       THEN sent' = Append(sent,
                [status |-> 200,
                 body |-> toJSON([temperature |-> weather.val.temperature,
                                  humidity |-> weather.val.humidity,
                                  intensity |-> light.val.intensity,
                                  pH |-> ph.pH])])
       ELSE sent' = Append(sent, [status |-> 500, body |-> [error |-> "failed"]])
    /\ pc' = "done"
    /\ UNCHANGED <<query, apiKey, weather, light, ph, calls, notEnvVars>>

\* the request is over; the next one starts from a fresh closure
Finish ==
    /\ pc = "done"
    /\ pc' = "idle" /\ query' = None
    /\ weather' = None /\ light' = None /\ ph' = None
    /\ calls' = <<>> /\ sent' = <<>>
    /\ UNCHANGED <<apiKey, notEnvVars>>

NextEnv ==
    \/ Arrive
    \/ Validate
    \/ CallWeather
    \/ CallLight
    \/ CallPH
    \/ WeatherSettles
    \/ LightSettles
    \/ Join
    \/ Finish

SpecEnv == InitEnv /\ [][NextEnv]_vars

\* every step of a started request is eventually taken: the handler's own
\* code runs to completion, and each provider call ends by itself or by
\* its 5 s timeout
FairSpecEnv ==
    /\ SpecEnv
    /\ WF_vars(Validate) /\ WF_vars(CallWeather) /\ WF_vars(CallLight)
    /\ WF_vars(CallPH) /\ WF_vars(WeatherSettles) /\ WF_vars(LightSettles)
    /\ WF_vars(Join)

-----------------------------------------------------------------------------
(* GET /environmental-data claims *)

\* C1: when latitude or longitude is missing or empty, the handler answers
\* 400 and no fetcher and no upstream call is started at any point of the
\* request.
C1_MissingParam400 ==
    (pc # "idle" /\ (falsy(query.latitude) \/ falsy(query.longitude))) =>
        /\ calls = <<>>
        /\ weather = None /\ light = None /\ ph = None
        /\ pc \in {"validate", "done"}
        /\ pc = "done" => (Len(sent) = 1 /\ sent[1].status = 400)

C1_Witness_OneMissing ==
    /\ pc = "done"
    /\ falsy(query.latitude) /\ ~falsy(query.longitude)
    /\ Len(sent) = 1 /\ sent[1].status = 400

\* C2: with both parameters present, the weather and light fetches are both
\* started before the handler awaits, the response is sent only after all
\* three fetchers have completed, and a pending fetcher can complete
\* whatever the state of its siblings.
C2_JoinAfterAll ==
    /\ pc = "await" =>
          /\ weather # None /\ light # None /\ ph # None
          /\ \E i, j \in 1..Len(calls) :
                calls[i] = "fetchWeatherData" /\ calls[j] = "fetchLightIntensity"
    /\ (sent # <<>> /\ sent[1].status # 400) =>
          /\ settled(weather) /\ settled(light) /\ ph # None
    /\ (pc = "await" /\ weather.st = "pending") => ENABLED WeatherSettles
    /\ (pc = "await" /\ light.st = "pending") => ENABLED LightSettles

\* a failed weather call, a light call that completed after it, then the
\* response
C2_Witness_FailedSibling ==
    /\ pc = "done" /\ Len(sent) = 1 /\ sent[1].status = 200
    /\ weather.cause = "error" /\ light.cause = "ok"

WeatherFailures == {"nokey", "error", "nomain", "emptymain"}
LightFailures == {"error", "nobody", "baddates", "notok"}

\* C3: with both parameters present, every failure of the weather and/or
\* the sunrise/sunset provider (network error, timeout, non-success status,
\* malformed body, missing API key) is absorbed into a fallback value: the
\* answer is 200 with all four fields, temperature, humidity and intensity
\* being numbers, and never 500.
C3_FailuresAbsorbed ==
    (pc = "done" /\ ~missingParam(query)
        /\ (weather.cause \in WeatherFailures \/ light.cause \in LightFailures)) =>
        /\ Len(sent) = 1 /\ sent[1].status = 200
        /\ DOMAIN sent[1].body = {"temperature", "humidity", "intensity", "pH"}
        /\ IsNum(sent[1].body.temperature)
        /\ IsNum(sent[1].body.humidity)
        /\ IsNum(sent[1].body.intensity)

\* C7: when latitude or longitude does not parse to a number, the pH
\* estimator returns '7.0' and the response carries pH 7.0.
C7_MalformedGivesNeutral ==
    (pc = "done" /\ ~missingParam(query)
        /\ (parseFloat(query.latitude) = NaNv \/ parseFloat(query.longitude) = NaNv)) =>
        /\ ph.pH = [t |-> "fixed1", tenths |-> 70]
        /\ sent[1].body.pH = [t |-> "fixed1", tenths |-> 70]

\* C9: every request eventually receives exactly one response, with status
\* 200, 400 or 500, whatever the providers do.
C9_ExactlyOneResponse ==
    /\ [](Len(sent) <= 1)
    /\ [](pc = "done" => (Len(sent) = 1 /\ sent[1].status \in {200, 400, 500}))
    /\ (pc = "validate") ~> (pc = "done")

\* a request answered after both provider calls ran into their failure path
C9_Witness_Answered ==
    /\ pc = "done" /\ Len(sent) = 1 /\ sent[1].status = 200
    /\ weather.cause = "error" /\ light.cause = "error"

-----------------------------------------------------------------------------
(* Marketplace router: GET /:id, POST /, PUT /:id, DELETE /:id *)

\* callers the auth middleware lets through (req.user.id)
Users == {"A", "B"}
\* well-formed document ids the store can assign, and a malformed one
ValidIds == {"L1", "L2"}
BadId == "not-an-id"
Ids == ValidIds \cup {BadId}
\* values of a listing's editable fields, standing for title, description, ...
Titles == {"t1", "t2"}
\* connections, each carrying one request at a time
Conns == {"c1", "c2"}

Absent == [t |-> "absent"]
Doc(seller, title, updatedAt) ==
    [t |-> "doc", seller |-> seller, title |-> title, updatedAt |-> updatedAt]

Idle == [pc |-> "idle"]
Request(method, id, user, patch) ==
    [pc |-> "find", method |-> method, id |-> id, user |-> user,
     patch |-> patch, seller |-> "-", stamp |-> 0, status |-> 0]

\* Listing.findById(id): a cast error for a malformed id, else the document
\* or null
findById(id) ==
    IF id \notin ValidIds THEN [err |-> [kind |-> "ObjectId"], doc |-> Absent]
    ELSE [err |-> [kind |-> "-"], doc |-> store[id]]

\* a catch block that answers 500 whatever the error
catchStatus_always500(err) == 500

\* the catch blocks: err.kind === 'ObjectId' is answered 404, the rest 500
catchStatus(err) == IF err.kind = "ObjectId" THEN 404 ELSE 500

\* an ownership check that lets every caller through
isOwner_anyone(listing, user) == TRUE

\* listing.seller.toString() === req.user.id
isOwner(listing, user) == listing.seller = user

\* if (title) listing.title = title; ...
patched(listing, patch, stamp) ==
    Doc(listing.seller,
        IF patch = Undef THEN listing.title ELSE patch.s,
        stamp)

\* the handler has answered: its locals (the body, the timestamp) are gone
Answer(r, status) ==
    [r EXCEPT !.pc = "done", !.status = status, !.patch = Undef, !.stamp = 0]

InitMarket ==
    /\ store = [i \in ValidIds |-> Absent]
    /\ used = {}
    /\ clock = 0
    /\ mreq = [c \in Conns |-> Idle]
    /\ LightIdle /\ WeatherIdle /\ EnvIdle

\* time passes
Tick ==
    /\ clock < MaxClock
    /\ clock' = clock + 1
    /\ UNCHANGED <<store, used, mreq, lightVars, weatherVars, envVars>>

\* an authenticated request arrives on an idle connection
SendGet(c) ==
    /\ mreq[c] = Idle
    /\ \E id \in Ids, u \in Users :
          mreq' = [mreq EXCEPT ![c] = Request("GET", id, u, Undef)]
    /\ UNCHANGED <<store, used, clock, lightVars, weatherVars, envVars>>

SendPut(c) ==
    /\ mreq[c] = Idle
    /\ \E id \in Ids, u \in Users, p \in {Undef} \cup {Str(t) : t \in Titles} :
          mreq' = [mreq EXCEPT ![c] = Request("PUT", id, u, p)]
    /\ UNCHANGED <<store, used, clock, lightVars, weatherVars, envVars>>

SendDelete(c) ==
    /\ mreq[c] = Idle
    /\ \E id \in Ids, u \in Users :
          mreq' = [mreq EXCEPT ![c] = Request("DELETE", id, u, Undef)]
    /\ UNCHANGED <<store, used, clock, lightVars, weatherVars, envVars>>

\* POST /: new Listing({ seller: req.user.id, ... }).save() under a fresh id
Post(c) ==
    /\ mreq[c] = Idle
    /\ \E id \in ValidIds \ used, u \in Users, t \in Titles :
          /\ store' = [store EXCEPT ![id] = Doc(u, t, clock)]
          /\ used' = used \cup {id}
          /\ mreq' = [mreq EXCEPT ![c] =
                        Answer(Request("POST", id, u, Str(t)), 200)]
    /\ UNCHANGED <<clock, lightVars, weatherVars, envVars>>

\* GET /:id
GetFind(c) ==
    /\ mreq[c].pc = "find" /\ mreq[c].method = "GET"
    /\ LET f == findById(mreq[c].id) IN
       mreq' = [mreq EXCEPT ![c] =
                  IF f.err.kind # "-" THEN Answer(@, catchStatus(f.err))
                  ELSE IF f.doc = Absent THEN Answer(@, 404)
                  ELSE Answer([@ EXCEPT !.seller = f.doc.seller], 200)]
    /\ UNCHANGED <<store, used, clock, lightVars, weatherVars, envVars>>

\* PUT /:id up to listing.save(): lookup, ownership check, field updates
PutFind(c) ==
    /\ mreq[c].pc = "find" /\ mreq[c].method = "PUT"
    /\ LET f == findById(mreq[c].id) IN
       mreq' = [mreq EXCEPT ![c] =
                  IF f.err.kind # "-" THEN Answer(@, catchStatus(f.err))
                  ELSE IF f.doc = Absent THEN Answer(@, 404)
                  ELSE IF ~isOwner(f.doc, @.user)
                       THEN Answer([@ EXCEPT !.seller = f.doc.seller], 401)
                  ELSE [@ EXCEPT !.pc = "write", !.seller = f.doc.seller,
                                 !.stamp = clock]]
    /\ UNCHANGED <<store, used, clock, lightVars, weatherVars, envVars>>

\* listing.save() of PUT /:id: the changed paths are written to the stored
\* document; when it is gone the save changes nothing and, depending on the
\* mapper's version, resolves or rejects with a non-cast error
PutSave(c) ==
    /\ mreq[c].pc = "write" /\ mreq[c].method = "PUT"
    /\ LET r == mreq[c] IN
       IF store[r.id] = Absent
       THEN /\ \E st \in {200, catchStatus([kind |-> "-"])} :
                  mreq' = [mreq EXCEPT ![c] = Answer(r, st)]
            /\ store' = store
       ELSE /\ store' = [store EXCEPT ![r.id] = patched(@, r.patch, r.stamp)]
            /\ mreq' = [mreq EXCEPT ![c] = Answer(r, 200)]
    /\ UNCHANGED <<used, clock, lightVars, weatherVars, envVars>>

\* DELETE /:id up to listing.deleteOne(): lookup, ownership check
DeleteFind(c) ==
    /\ mreq[c].pc = "find" /\ mreq[c].method = "DELETE"
    /\ LET f == findById(mreq[c].id) IN
       mreq' = [mreq EXCEPT ![c] =
                  IF f.err.kind # "-" THEN Answer(@, catchStatus(f.err))
                  ELSE IF f.doc = Absent THEN Answer(@, 404)
                  ELSE IF ~isOwner(f.doc, @.user)
                       THEN Answer([@ EXCEPT !.seller = f.doc.seller], 401)
                  ELSE [@ EXCEPT !.pc = "write", !.seller = f.doc.seller]]
    /\ UNCHANGED <<store, used, clock, lightVars, weatherVars, envVars>>

\* listing.deleteOne() of DELETE /:id
DeleteOne(c) ==
    /\ mreq[c].pc = "write" /\ mreq[c].method = "DELETE"
    /\ store' = [store EXCEPT ![mreq[c].id] = Absent]
    /\ mreq' = [mreq EXCEPT ![c] = Answer(@, 200)]
    /\ UNCHANGED <<used, clock, lightVars, weatherVars, envVars>>

\* the response is delivered and the connection is free again
Close(c) ==
    /\ mreq[c].pc = "done"
    /\ mreq' = [mreq EXCEPT ![c] = Idle]
    /\ UNCHANGED <<store, used, clock, lightVars, weatherVars, envVars>>

NextMarket ==
    \/ Tick
    \/ \E c \in Conns : SendGet(c)
    \/ \E c \in Conns : SendPut(c)
    \/ \E c \in Conns : SendDelete(c)
    \/ \E c \in Conns : Post(c)
    \/ \E c \in Conns : GetFind(c)
    \/ \E c \in Conns : PutFind(c)
    \/ \E c \in Conns : PutSave(c)
    \/ \E c \in Conns : DeleteFind(c)
    \/ \E c \in Conns : DeleteOne(c)
    \/ \E c \in Conns : Close(c)

SpecMarket == InitMarket /\ [][NextMarket]_vars

-----------------------------------------------------------------------------
(* Marketplace claims *)

\* connection c carries a PUT or DELETE on an existing listing of another
\* user, and its lookup is about to run
foreignWrite(c) ==
    /\ mreq[c].pc = "find" /\ mreq[c].method \in {"PUT", "DELETE"}
    /\ mreq[c].id \in ValidIds
    /\ store[mreq[c].id] # Absent
    /\ store[mreq[c].id].seller # mreq[c].user

\* C4: a PUT or DELETE on an existing listing by a caller who is not its
\* seller is answered 401 and leaves the store unchanged; a stored listing
\* is modified or removed only by a step of a request whose caller is its
\* seller.
C4_OwnerOnly ==
    [][ /\ \A c \in Conns :
              (foreignWrite(c) /\ mreq'[c] # mreq[c]) =>
                  /\ mreq'[c].pc = "done" /\ mreq'[c].status = 401
                  /\ store' = store
        /\ \A id \in ValidIds :
              (store[id] # Absent /\ store'[id] # store[id]) =>
                  \E c \in Conns :
                      /\ mreq[c].pc = "write" /\ mreq[c].id = id
                      /\ mreq[c].user = store[id].seller
                      /\ mreq'[c].pc = "done"
      ]_vars

\* a PUT by a caller who is not the seller was answered 401 and the listing
\* is still stored
C4_Witness_Refused ==
    \E c \in Conns :
        /\ mreq[c].pc = "done" /\ mreq[c].method = "PUT"
        /\ mreq[c].status = 401
        /\ mreq[c].seller \in Users /\ mreq[c].seller # mreq[c].user
        /\ store[mreq[c].id] # Absent
        /\ store[mreq[c].id].seller = mreq[c].seller

\* C8: GET, PUT and DELETE with a malformed id are answered 404, never 500,
\* and change no listing.
C8_MalformedId404 ==
    [][ \A c \in Conns :
          (mreq[c].pc = "find" /\ mreq[c].id = BadId /\ mreq'[c] # mreq[c]) =>
              /\ mreq'[c].pc = "done" /\ mreq'[c].status = 404
              /\ store' = store
      ]_vars

\* a DELETE with the malformed id was answered 404 while a listing is stored
C8_Witness_BadDelete ==
    \E c \in Conns :
        /\ mreq[c].pc = "done" /\ mreq[c].method = "DELETE"
        /\ mreq[c].id = BadId /\ mreq[c].status = 404
        /\ \E id \in ValidIds : store[id] # Absent

-----------------------------------------------------------------------------
(* Specification of the light estimator as a function of its inputs *)

InitLight ==
    /\ lin \in LightOutcomes
    /\ lout = None
    /\ WeatherIdle /\ EnvIdle /\ MarketIdle

EstimateLight ==
    /\ lout = None
    /\ lout' = [intensity |-> lightIntensity(lin)]
    /\ UNCHANGED <<lin, weatherVars, envVars, marketVars>>

NextLight == EstimateLight

SpecLight == InitLight /\ [][NextLight]_vars

-----------------------------------------------------------------------------
(* Specification of the weather fallback as a function of the random draws *)

InitWeather ==
    /\ rnd \in RandomDraws
    /\ wout = None
    /\ LightIdle /\ EnvIdle /\ MarketIdle

FallbackWeather ==
    /\ wout = None
    /\ wout' = weatherFallback(rnd)
    /\ UNCHANGED <<rnd, lightVars, envVars, marketVars>>

NextWeather == FallbackWeather

SpecWeather == InitWeather /\ [][NextWeather]_vars

-----------------------------------------------------------------------------
(* Light estimator claims *)

in_daylight(r) == ~(jsLt(r.now, r.sunrise) \/ jsLt(r.sunset, r.now))
progressOf(r) == dayProgress(jsSub(r.now, r.sunrise), jsSub(r.sunset, r.sunrise))

\* C5: with provider status OK, dayProgress = 0.5 gives intensity 100,
\* dayProgress 0 or 1 gives 10, and a current time outside
\* [sunrise, sunset] gives 10.
C5_LightKeyPoints ==
    (lout # None /\ lin.kind = "ok") =>
        LET p == progressOf(lin) IN
        /\ (in_daylight(lin) /\ p.t = "frac" /\ 2 * p.n = p.d)
              => lout.intensity = Num(100)
        /\ (in_daylight(lin) /\ p.t = "frac" /\ p.n \in {0, p.d})
              => lout.intensity = Num(10)
        /\ ~in_daylight(lin) => lout.intensity = Num(10)

C5_Witness_Noon ==
    /\ lout # None /\ lin.kind = "ok"
    /\ lin.sunrise.v < lin.sunset.v
    /\ 2 * (lin.now.v - lin.sunrise.v) = lin.sunset.v - lin.sunrise.v
    /\ lout.intensity = Num(100)

\* C10: every outcome of the light estimator returns an integer intensity
\* between 10 and 100 inclusive.
C10_IntensityInRange ==
    lout # None =>
        /\ IsNum(lout.intensity)
        /\ lout.intensity.v >= 10 /\ lout.intensity.v <= 100

\* the estimate taken at an instant that is both sunrise and sunset
C10_Witness_ZeroLengthDay ==
    /\ lout # None /\ lin.kind = "ok"
    /\ lin.sunrise = lin.sunset /\ lin.now = lin.sunrise

-----------------------------------------------------------------------------
(* Weather fallback claims *)

\* C6 as stated: fallback temperature in [20,30) and humidity in [40,80).
C6_FallbackHalfOpen ==
    wout # None =>
        /\ wout.temperature.v >= 20 /\ wout.temperature.v < 30
        /\ wout.humidity.v >= 40 /\ wout.humidity.v < 80

\* C6 amended: fallback temperature is an integer in [20,30] and humidity an
\* integer in [40,80], both ends included.
C6_FallbackClosed ==
    wout # None =>
        /\ IsNum(wout.temperature) /\ IsNum(wout.humidity)
        /\ wout.temperature.v >= 20 /\ wout.temperature.v <= 30
        /\ wout.humidity.v >= 40 /\ wout.humidity.v <= 80

C6_Witness_UpperEnds ==
    /\ wout # None
    /\ wout.temperature = Num(30) /\ wout.humidity = Num(80)

=============================================================================
